---- MODULE Spec2Model ----
(***************************************************************************)
(* Model of src/index.js: the batch enrichment pipeline.                   *)
(*   handleImport   triggers an import and polls its progress.             *)
(*   processNews    fetches the pending posts page by page, shuffles them  *)
(*                  and runs doProcessPost on each, one after the other.   *)
(*   doProcessPost  asks the AI for an analysis (toAiPrompt), parses it,   *)
(*                  resolves the categories and the status, resolves a     *)
(*                  cover image when the post has none, and writes back.   *)
(* JavaScript values that can be of several types are records tagged with  *)
(* their type: [t |-> "undef"], [t |-> "num", n |-> 4], [t |-> "fn"].      *)
(* The five category names of categoryMap are transliterated, since TLA+  *)
(* strings are ASCII: erabu (2082), taiken (2083), fukabori (2084),        *)
(* kau (2085), community (2086).                                           *)
(***************************************************************************)
EXTENDS Integers, Sequences, FiniteSets, TLC

\* ------------------------------------------------------------- bounds
\* The largest batch of pending posts a run fetches.
MaxPosts == 2
\* The number of posts of a full page. The source asks for pages of 100
\* (perPage); the model takes small pages, the loop being the same.
PageSize == 2
\* The AI answers ai_importance with a number of 0 .. MaxImportance, or omits it.
MaxImportance == 5
\* The largest count of remaining items a status poll reports.
MaxRemaining == 2

\* ------------------------------------------------- program constants
\* toAiPrompt: const maxRetries = 3
maxRetries == 3
\* toAiPrompt: const baseWaitTime = 60000 (milliseconds)
baseWaitTime == 60000
\* doProcessPost: targetCategories.push(1677), the featured category
FeaturedCategoryId == 1677
\* toAiPrompt: error.status === 429, the status of a rate-limit error
RateLimitStatus == 429
\* processNews: const perPage = 100, the per_page parameter of every request
perPage == 100
\* handleImport: const maxAttempts = 30
maxAttempts == 30
\* handleImport: setTimeout(resolve, 60000), the wait between two polls
pollWaitTime == 60000
\* handleImport: progressData.status === 200
CompleteStatus == 200

\* ------------------------------------------------------- JS values
Undef == [t |-> "undef"]
Num(k) == [t |-> "num", n |-> k]
\* A function object inherited from Object.prototype (Object, toString, ...)
Fn == [t |-> "fn"]
Str(x) == [t |-> "str", s |-> x]
Bool(x) == [t |-> "bool", b |-> x]

\* JavaScript truthiness of a tagged value (the operand of || and of if)
Truthy(v) ==
  CASE v.t = "undef" -> FALSE
    [] v.t = "num" -> v.n # 0
    [] v.t = "str" -> v.s # ""
    [] v.t = "bool" -> v.b
    [] OTHER -> TRUE

\* ------------------------------------------------------- the AI's text
\* A text is [shape, body]: shape is its characters, "p" a character of prose,
\* "{" and "}" the braces, "b" the members of a JSON object, whose decoded
\* fields are body.
TextChars == {"p", "{", "}", "b"}

\* text.match(/\{[\s\S]*\}/): the leftmost "{" that has a "}" after it, up to the
\* last "}" of the text (the star is greedy). <<>> when nothing matches (null).
BraceAt(shape, c) == {k \in 1..Len(shape) : shape[k] = c}
Min(S) == CHOOSE k \in S : \A m \in S : k <= m
Max(S) == CHOOSE k \in S : \A m \in S : k >= m
HasMatch(shape) ==
  \E a \in BraceAt(shape, "{") : \E b \in BraceAt(shape, "}") : a < b
jsonMatch(shape) ==
  IF HasMatch(shape)
    THEN SubSeq(shape, Min(BraceAt(shape, "{")), Max(BraceAt(shape, "}")))
    ELSE <<>>

\* JSON.parse of the matched substring: it decodes when the substring is one
\* object, with members or empty; anything else is a SyntaxError.
JsonDecodes(s) == s \in {<<"{", "b", "}">>, <<"{", "}">>}

\* The object JSON.parse returns for a text whose match decodes: the fields of
\* its members, or those of the empty object.
Decoded(text, empty) ==
  IF jsonMatch(text.shape) = <<"{", "b", "}">> THEN text.body ELSE empty

\* ------------------------------------------------ the parsed analysis
\* The values the AI may put in the fields the pipeline reads.
ImportanceValues == {Undef} \cup {Num(k) : k \in 1..MaxImportance}
\* "constructor" stands for the names every object inherits from
\* Object.prototype, "zatsudan" for a name that is no property at all.
CategoryInputs ==
  {Undef} \cup {Str(x) : x \in {"erabu", "taiken", "fukabori", "kau", "community",
                                "zatsudan", "constructor"}}
RelevanceValues == {Undef, Bool(TRUE), Bool(FALSE)}
AnalysisBodies ==
  [ai_importance : ImportanceValues, selected_category : CategoryInputs,
   is_beer_related : RelevanceValues]
\* The decoded object of "{}": every field is undefined.
EmptyBody ==
  [ai_importance |-> Undef, selected_category |-> Undef, is_beer_related |-> Undef]

\* The shapes of the AI's text: empty, prose alone, an empty object, one object
\* followed by prose that has a "}" (its match does not decode, so its fields
\* are never read), and one object wrapped in prose.
PlainShapes == {<<>>, <<"p">>, <<"{", "}">>, <<"{", "b", "}", "p", "}">>}
ObjectShapes == {<<"p", "{", "b", "}", "p">>}
AiTexts ==
  {[shape |-> s, body |-> EmptyBody] : s \in PlainShapes}
    \cup {[shape |-> s, body |-> b] : s \in ObjectShapes, b \in AnalysisBodies}
\* return null
NoText == [t |-> "null"]

\* The statuses an error of the AI capability carries (error.status).
AiErrorStatuses == {Undef, Num(RateLimitStatus), Num(500)}

\* ------------------------------------------------------- toAiPrompt
\* A retry on any error, not the rate-limit error alone.
ShouldRetryAnyError(status, retries) == retries < maxRetries
\* error.status === 429 && retryCount < maxRetries
ShouldRetry(status, retries) ==
  status = Num(RateLimitStatus) /\ retries < maxRetries
\* A wait that grows by the base wait, not by doubling.
BackoffWaitLinear(retries) == baseWaitTime * (retries + 1)
\* const waitTime = baseWaitTime * Math.pow(2, retryCount)
BackoffWait(retries) == baseWaitTime * (2 ^ retries)
\* await new Promise((resolve) => setTimeout(resolve, baseWaitTime)), after a success
CooldownWait == baseWaitTime

\* ------------------------------------------- categories and status
\* const categoryMap = {...}: its own properties
categoryMap ==
  [erabu |-> 2082, taiken |-> 2083, fukabori |-> 2084, kau |-> 2085,
   community |-> 2086]
\* Names categoryMap inherits from Object.prototype: an object literal has them.
PrototypeNames == {"constructor"}
\* The property key a value is converted to: undefined reads key "undefined".
PropertyKey(v) == IF v.t = "str" THEN v.s ELSE "undefined"
\* categoryMap[name]: an own property, an inherited one, or undefined
categoryMapGet(name) ==
  IF name \in DOMAIN categoryMap THEN Num(categoryMap[name])
  ELSE IF name \in PrototypeNames THEN Fn
  ELSE Undef
\* categoryMap[selectedCatName] || categoryMap['fukabori']
mainCategoryId(aiData) ==
  LET found == categoryMapGet(PropertyKey(aiData.selected_category))
  IN IF Truthy(found) THEN found ELSE categoryMapGet("fukabori")
\* The threshold taken as importance > 4.
IsFeaturedAbove4(aiData) ==
  aiData.ai_importance.t = "num" /\ aiData.ai_importance.n > 4
\* aiData.ai_importance >= 4 (undefined compares as NaN: false)
IsFeatured(aiData) ==
  aiData.ai_importance.t = "num" /\ aiData.ai_importance.n >= 4
\* let targetCategories = [mainCategoryId]; ... targetCategories.push(1677)
targetCategories(aiData) ==
  IF IsFeatured(aiData)
    THEN <<mainCategoryId(aiData), Num(FeaturedCategoryId)>>
    ELSE <<mainCategoryId(aiData)>>
\* The relevance check left out.
IsIrrelevantNever(aiData) == FALSE
\* aiData.is_beer_related === false
IsIrrelevant(aiData) == aiData.is_beer_related = Bool(FALSE)
\* The comparison turned round: featured_media >= 0.
NeedsImageWrongSign(p) ==
  \/ ~Truthy(p.featured_media)
  \/ (p.featured_media.t = "num" /\ p.featured_media.n >= 0)
\* !post.featured_media || post.featured_media <= 0
NeedsImage(p) ==
  \/ ~Truthy(p.featured_media)
  \/ (p.featured_media.t = "num" /\ p.featured_media.n <= 0)
\* The status decided by the media id, not by the success flag.
StatusByMediaId(result) == IF Truthy(result.mediaId) THEN "publish" ELSE "draft"
\* if (imageResult.success) postStatus = 'publish' else postStatus = 'draft'
StatusAfterImage(result) == IF result.success THEN "publish" ELSE "draft"

\* ------------------------------------------- extractImageUrlFromContent
ImageBodies ==
  [found : {Undef, Bool(TRUE), Bool(FALSE)}, image_url : {Undef, Str(""), Str("img")}]
EmptyImageBody == [found |-> Undef, image_url |-> Undef]
ImageTexts ==
  {[shape |-> s, body |-> EmptyImageBody] : s \in PlainShapes}
    \cup {[shape |-> s, body |-> b] : s \in ObjectShapes, b \in ImageBodies}
\* What the AI capability answers to a request: an error, or a text.
ImageResponses ==
  {[ok |-> FALSE, status |-> st, text |-> [shape |-> <<>>, body |-> EmptyImageBody]] :
     st \in AiErrorStatuses}
    \cup {[ok |-> TRUE, status |-> Undef, text |-> x] : x \in ImageTexts}
\* How a request to the AI capability ended: "ok", "rateLimit" for an error
\* with the rate-limit status, "error" for any other error.
requestOutcome(ok, status) ==
  IF ok THEN "ok" ELSE IF status = Num(RateLimitStatus) THEN "rateLimit" ELSE "error"
\* The value extractImageUrlFromContent returns: the URL, or null (Undef) when
\* the request throws, nothing matches, JSON.parse throws, or
\* aiData.found && aiData.image_url is falsy.
extractImageUrl(response) ==
  IF ~response.ok THEN Undef
  ELSE IF ~HasMatch(response.text.shape) THEN Undef
  ELSE IF ~JsonDecodes(jsonMatch(response.text.shape)) THEN Undef
  ELSE LET data == Decoded(response.text, EmptyImageBody)
       IN IF Truthy(data.found) /\ Truthy(data.image_url)
            THEN data.image_url ELSE Undef

\* ------------------------------------------- downloadAndProcessImage
\* What wpReq gives for a write: it throws (a network error, or a body that is
\* not JSON), or it returns the decoded body, whose id is a number or missing.
WriteResponses ==
  {[throws |-> TRUE, id |-> Undef], [throws |-> FALSE, id |-> Undef],
   [throws |-> FALSE, id |-> Num(0)], [throws |-> FALSE, id |-> Num(31)]}
NoResult == [mediaId |-> Undef, success |-> FALSE]
\* The failed attachment reported like a failed upload, without the media id.
AttachResultDropsId(mediaId, attachThrows) ==
  [mediaId |-> IF attachThrows THEN Undef ELSE mediaId, success |-> ~attachThrows]
\* return { postId, mediaId: uploadResponse.id, success: true | false }
AttachResult(mediaId, attachThrows) ==
  [mediaId |-> mediaId, success |-> ~attachThrows]

\* ---------------------------------------------------------- the posts
FeaturedMediaValues == {Undef, Num(0), Num(-1), Num(7)}
\* source: whether any of content.rendered, content.raw, meta.content_encoded,
\* title.rendered, excerpt.rendered is a non-empty string (sourceContent);
\* content: whether post.content is an object at all.
PostInputs ==
  {[featured_media |-> f, source |-> src, content |-> c] :
     f \in FeaturedMediaValues, src \in BOOLEAN, c \in BOOLEAN}
NoPost == [featured_media |-> Undef, source |-> FALSE, content |-> FALSE]
NoData == EmptyBody

\* What wpReq returns for a page of pending posts when `have` posts were
\* fetched before: a JSON value that is no array (the error object of the
\* content store), or an array of at most PageSize posts, the next ids.
PageResponses(have) ==
  {[kind |-> "object", posts |-> <<>>]}
    \cup {[kind |-> "array", posts |-> [k \in 1..n |-> have + k]] :
           n \in 0..Min({PageSize, MaxPosts - have})}
NoResponse == [kind |-> "none", posts |-> <<>>]
\* !Array.isArray(posts) || posts.length === 0
pageIsEmpty(r) == r.kind # "array" \/ Len(r.posts) = 0
\* A short page taken for a full one.
pageIsShortNever(r) == FALSE
\* posts.length < perPage, at the scale of the model
pageIsShort(r) == Len(r.posts) < PageSize

\* The orders Array.prototype.sort may leave with a random comparator
ShuffleOrders(n) ==
  {f \in [1..n -> 1..n] : \A a, b \in 1..n : a # b => f[a] # f[b]}

\* ------------------------------------------------------- handleImport
\* The body of a status poll (progressText) is one of:
\*   object  a JSON object; status and message are its fields
\*   number  a JSON number alone, as "0" or "2"
\*   null    the JSON literal null
\*   text    a text that is not JSON; first is the value of its first run of
\*           digits, Undef when it has no digit
\* A message is a string, or missing.
PollMessages == {Undef, Str(""), Str("import complete"), Str("processing")}
PollStatuses == {Undef, Num(CompleteStatus), Num(500), Str("200")}
PollBodies ==
  {[kind |-> "object", status |-> st, message |-> msg, n |-> Undef] :
     st \in PollStatuses, msg \in PollMessages}
    \cup {[kind |-> "number", status |-> Undef, message |-> Undef, n |-> Num(k)] :
           k \in 0..MaxRemaining}
    \cup {[kind |-> "null", status |-> Undef, message |-> Undef, n |-> Undef]}
    \cup {[kind |-> "text", status |-> Undef, message |-> Undef, n |-> c] :
           c \in {Undef} \cup {Num(k) : k \in 0..MaxRemaining}}
NoBody == [kind |-> "none", status |-> Undef, message |-> Undef, n |-> Undef]
\* What fetch gives for a poll: it throws (as does progressResponse.text()),
\* a response that is not ok, or an ok response with a body.
PollResponses ==
  {[resp |-> r, body |-> NoBody] : r \in {"throws", "notOk"}}
    \cup {[resp |-> "ok", body |-> b] : b \in PollBodies}
NoPoll == [resp |-> "none", body |-> NoBody]

\* message.includes('complete')
includesComplete(msg) == msg = Str("import complete")
\* The body status left out of the test.
detectsCompleteAnyStatus(body) ==
  body.kind = "object" /\ Truthy(body.message) /\ includesComplete(body.message)
\* progressData.status === 200 && progressData.message &&
\* progressData.message.includes('complete'), of a body JSON.parse accepted
detectsComplete(body) ==
  /\ body.kind = "object"
  /\ body.status = Num(CompleteStatus)
  /\ Truthy(body.message)
  /\ includesComplete(body.message)
\* The inner try block throws: JSON.parse throws a SyntaxError for a text that
\* is not JSON, and progressData.status a TypeError for the parsed null.
innerTryThrows(body) == body.kind \in {"text", "null"}
\* progressText.match(/(\d+)/) then parseInt(countMatch[1]): the count of the
\* first run of digits, Undef for no match. It is read in the catch only.
countMatch(body) == IF body.kind = "text" THEN body.n ELSE Undef
\* remainingCount after a poll
countAfterPoll(poll, count) ==
  IF poll.resp # "ok" THEN count
  ELSE IF detectsComplete(poll.body) THEN 0
  ELSE IF innerTryThrows(poll.body) /\ countMatch(poll.body) # Undef
    THEN countMatch(poll.body).n
  ELSE count
\* One poll too many: attempts <= maxAttempts.
loopContinuesOneMore(count, tries) == count # 0 /\ tries <= maxAttempts
\* remainingCount !== 0 && attempts < maxAttempts, the test of the while loop
\* and of the wait
loopContinues(count, tries) == count # 0 /\ tries < maxAttempts
\* The trigger response taken as a success whenever fetch returned.
triggerSucceededAnyStatus(r) == r # "throws"
\* importResponse.ok
triggerSucceeded(r) == r = "ok"

VARIABLES
  pc,             \* processNews: "idle", "fetch", "shuffle", "loop", "post", "done"
  taskError,      \* processNews: its catch block ran
  shuffledPosts,  \* the ids of the fetched posts, in processing order
  idx,            \* position of the for loop in shuffledPosts
  processed,      \* history: how often doProcessPost was entered for each id
  page,           \* processNews: page
  pageResponse,   \* processNews: response, the page the while loop holds
  requests,       \* history: the page requests made, in order
  post,           \* doProcessPost: its argument
  step,           \* doProcessPost: "idle", "analyze", "extract", "download",
                  \* "upload", "attach", "update", "end"
  outcome,        \* history: how the last doProcessPost ended
  aiPc,           \* toAiPrompt: "idle", "request", "backoff", "cooldown", "return"
  retryCount,     \* toAiPrompt: retryCount of the innermost call
  aiText,         \* toAiPrompt: the value returned (NoText for null)
  aiOutcomes,     \* history: the outcome of each request of this toAiPrompt call
  aiSleeps,       \* history: the waits of this toAiPrompt call, in order
  aiData,         \* doProcessPost: the parsed analysis
  postStatus,     \* doProcessPost: postStatus
  categories,     \* doProcessPost: targetCategories
  imageUrl,       \* doProcessPost: imageUrl
  imageResult,    \* doProcessPost: imageResult
  imageLog,       \* history: how far image resolution went
  extractCalls,   \* history: image-extraction AI requests of this post
  extractOutcomes, \* history: the outcome of each of these requests
  downloads,      \* history: image downloads of this post
  writes,         \* history: the content-store writes of this post, in order
  updateData,     \* the payload of the update call
  hPc,            \* handleImport: "idle", "trigger", "poll", "wait", "after", "done"
  trigger,        \* history: the trigger response, "none", "ok", "notOk", "throws"
  remainingCount, \* handleImport: remainingCount
  attempts,       \* handleImport: attempts
  lastPoll,       \* history: the response of the last status poll
  pollWaits,      \* history: the waits between the polls, in milliseconds
  warned,         \* history: the warning of line 517 was logged
  returned        \* handleImport: the value returned, "none", "true", "false"

vars ==
  <<pc, taskError, shuffledPosts, idx, processed, post, step, outcome, aiPc,
    retryCount, aiText, aiOutcomes, aiSleeps, aiData, postStatus, categories,
    imageUrl, imageResult, imageLog, extractCalls, extractOutcomes, downloads, writes,
    updateData, page, pageResponse, requests,
    hPc, trigger, remainingCount, attempts, lastPoll, pollWaits, warned, returned>>

fetchVars == <<page, pageResponse, requests>>
batchVars == <<pc, taskError, shuffledPosts, idx, processed, fetchVars>>
aiVars == <<aiPc, retryCount, aiText, aiOutcomes, aiSleeps>>
imageVars == <<imageUrl, imageResult, imageLog, extractCalls, extractOutcomes, downloads>>
importVars ==
  <<hPc, trigger, remainingCount, attempts, lastPoll, pollWaits, warned, returned>>
NoPayload == [status |-> "none", categories |-> <<>>]

\* handleImport is not running: its variables before the call.
ImportIdle ==
  /\ hPc = "idle"
  /\ trigger = "none"
  /\ remainingCount = -1
  /\ attempts = 0
  /\ lastPoll = NoPoll
  /\ pollWaits = <<>>
  /\ warned = FALSE
  /\ returned = "none"

\* processNews is not running: its variables, and those of doProcessPost,
\* before the call.
BatchIdle(at) ==
  /\ pc = at
  /\ taskError = FALSE
  /\ shuffledPosts = <<>>
  /\ idx = 0
  /\ processed = <<>>
  /\ page = 1
  /\ pageResponse = NoResponse
  /\ requests = <<>>
  /\ post = NoPost
  /\ step = "idle"
  /\ outcome = "none"
  /\ aiPc = "idle"
  /\ retryCount = 0
  /\ aiText = NoText
  /\ aiOutcomes = <<>>
  /\ aiSleeps = <<>>
  /\ aiData = NoData
  /\ postStatus = "draft"
  /\ categories = <<>>
  /\ imageUrl = Undef
  /\ imageResult = NoResult
  /\ imageLog = "none"
  /\ extractCalls = 0
  /\ extractOutcomes = <<>>
  /\ downloads = 0
  /\ writes = <<>>
  /\ updateData = NoPayload

\* processNews is called.
Init == BatchIdle("fetch") /\ ImportIdle

\* ------------------------------------------------------- processNews
\* One turn of the while loop: wpReq returns the page; an empty page or a
\* value that is no array ends the loop, the posts of any other page are
\* pushed to allPosts (shuffledPosts is the same array), and a short page ends
\* the loop then.
FetchPage ==
  /\ pc = "fetch"
  /\ requests' = Append(requests, [page |-> page, per_page |-> perPage])
  /\ \E r \in PageResponses(Len(shuffledPosts)) :
       /\ pageResponse' = r
       /\ IF pageIsEmpty(r)
            THEN /\ pc' = "shuffle"
                 /\ UNCHANGED <<shuffledPosts, processed, page>>
            ELSE /\ shuffledPosts' = shuffledPosts \o r.posts
                 /\ processed' = [k \in 1..(Len(shuffledPosts) + Len(r.posts)) |-> 0]
                 /\ IF pageIsShort(r)
                      THEN pc' = "shuffle" /\ page' = page
                      ELSE pc' = "fetch" /\ page' = page + 1
  /\ UNCHANGED <<taskError, idx, post, step, outcome, aiData, postStatus,
                 categories, writes, updateData>>
  /\ UNCHANGED aiVars
  /\ UNCHANGED imageVars
  /\ UNCHANGED importVars

\* wpReq of a page throws: the catch of processNews logs it, and no post is
\* processed.
FetchFails ==
  /\ pc = "fetch"
  /\ requests' = Append(requests, [page |-> page, per_page |-> perPage])
  /\ pc' = "done"
  /\ taskError' = TRUE
  /\ UNCHANGED <<shuffledPosts, idx, processed, page, pageResponse, post, step, outcome,
                 aiData, postStatus, categories, writes, updateData>>
  /\ UNCHANGED aiVars
  /\ UNCHANGED imageVars
  /\ UNCHANGED importVars

\* const shuffledPosts = posts.sort(() => Math.random() - 0.5)
Shuffle ==
  /\ pc = "shuffle"
  /\ \E f \in ShuffleOrders(Len(shuffledPosts)) :
       shuffledPosts' = [k \in 1..Len(shuffledPosts) |-> shuffledPosts[f[k]]]
  /\ idx' = 1
  /\ pc' = "loop"
  /\ pageResponse' = NoResponse
  /\ UNCHANGED <<page, requests>>
  /\ UNCHANGED <<taskError, processed, post, step, outcome, aiData, postStatus,
                 categories, writes, updateData>>
  /\ UNCHANGED aiVars
  /\ UNCHANGED imageVars
  /\ UNCHANGED importVars

\* for (const post of shuffledPosts): the loop is over.
LoopDone ==
  /\ pc = "loop"
  /\ idx > Len(shuffledPosts)
  /\ pc' = "done"
  /\ UNCHANGED <<taskError, shuffledPosts, idx, processed, post, step, outcome,
                 aiData, postStatus, categories, writes, updateData>>
  /\ UNCHANGED aiVars
  /\ UNCHANGED imageVars
  /\ UNCHANGED importVars
  /\ UNCHANGED fetchVars

\* The position of the for loop after one more post.
NextIdx(k) == k + 1

\* ----------------------------------------------------- doProcessPost
\* await doProcessPost(post), up to the request of toAiPrompt: a post without
\* sourceContent returns at once.
DoProcessPostStart ==
  /\ pc = "loop"
  /\ idx <= Len(shuffledPosts)
  /\ pc' = "post"
  /\ processed' = [processed EXCEPT ![shuffledPosts[idx]] = @ + 1]
  /\ \E p \in PostInputs :
       /\ post' = p
       /\ IF ~p.source
            THEN /\ step' = "end"
                 /\ outcome' = "NoContent"
                 /\ aiPc' = "idle"
            ELSE /\ step' = "analyze"
                 /\ outcome' = "none"
                 /\ aiPc' = "request"
  /\ retryCount' = 0
  /\ UNCHANGED <<taskError, shuffledPosts, idx, aiText, aiOutcomes, aiSleeps,
                 aiData, postStatus, categories, writes, updateData>>
  /\ UNCHANGED imageVars
  /\ UNCHANGED importVars
  /\ UNCHANGED fetchVars

\* ------------------------------------------------------- toAiPrompt
\* model.generateContent(prompt) answers with a text: the cooldown follows.
AiRequestSucceeds ==
  /\ pc = "post" /\ step = "analyze" /\ aiPc = "request"
  /\ \E text \in AiTexts : aiText' = text
  /\ aiOutcomes' = Append(aiOutcomes, "ok")
  /\ aiPc' = "cooldown"
  /\ UNCHANGED <<retryCount, aiSleeps, post, step, outcome, aiData, postStatus,
                 categories, writes, updateData>>
  /\ UNCHANGED batchVars
  /\ UNCHANGED imageVars
  /\ UNCHANGED importVars

\* The text is returned after the wait that follows a success.
AiCooldown ==
  /\ pc = "post" /\ step = "analyze" /\ aiPc = "cooldown"
  /\ aiSleeps' = Append(aiSleeps, [kind |-> "cooldown", ms |-> CooldownWait])
  /\ aiPc' = "return"
  /\ UNCHANGED <<retryCount, aiText, aiOutcomes, post, step, outcome, aiData,
                 postStatus, categories, writes, updateData>>
  /\ UNCHANGED batchVars
  /\ UNCHANGED imageVars
  /\ UNCHANGED importVars

\* The request throws: a retry is scheduled, or null is returned.
AiRequestFails ==
  /\ pc = "post" /\ step = "analyze" /\ aiPc = "request"
  /\ \E status \in AiErrorStatuses :
       /\ aiOutcomes' =
            Append(aiOutcomes,
                   IF status = Num(RateLimitStatus) THEN "rateLimit" ELSE "error")
       /\ aiPc' = IF ShouldRetry(status, retryCount) THEN "backoff" ELSE "return"
  /\ aiText' = NoText
  /\ UNCHANGED <<retryCount, aiSleeps, post, step, outcome, aiData, postStatus,
                 categories, writes, updateData>>
  /\ UNCHANGED batchVars
  /\ UNCHANGED imageVars
  /\ UNCHANGED importVars

\* The wait before a retry, then toAiPrompt(prompt, retryCount + 1)
AiBackoff ==
  /\ pc = "post" /\ step = "analyze" /\ aiPc = "backoff"
  /\ aiSleeps' = Append(aiSleeps, [kind |-> "backoff", ms |-> BackoffWait(retryCount)])
  /\ retryCount' = retryCount + 1
  /\ aiPc' = "request"
  /\ UNCHANGED <<aiText, aiOutcomes, post, step, outcome, aiData, postStatus,
                 categories, writes, updateData>>
  /\ UNCHANGED batchVars
  /\ UNCHANGED imageVars
  /\ UNCHANGED importVars

\* ------------------------------------- doProcessPost, after the analysis
\* No catch in doProcessPost: the error reaches processNews.
NoCatchInTry == FALSE
\* try { ... } catch (error) { console.error(...) }: whether an error thrown
\* inside the try block of doProcessPost is caught there.
CatchesInTry == TRUE

\* A parse that falls back to the empty object instead of throwing.
analysisParsesAlways(text) == TRUE
\* const jsonMatch = aiRawResponse.match(/\{[\s\S]*\}/);
\* aiData = JSON.parse(jsonMatch[0]): neither line throws (jsonMatch[0] of a
\* null match is a TypeError, an undecodable match a SyntaxError).
analysisParses(text) ==
  HasMatch(text.shape) /\ JsonDecodes(jsonMatch(text.shape))

\* Lines 341-410, from the return of toAiPrompt to the next await: what
\* doProcessPost holds then. thrown: an error was thrown inside the try block.
AfterAnalysis(p, text) ==
  LET stop(how, parsed, thrown) ==
        [step |-> "end", outcome |-> how, aiData |-> parsed, categories |-> <<>>,
         postStatus |-> "draft", imageLog |-> "none", thrown |-> thrown]
      data == Decoded(text, EmptyBody)
  IN IF text = NoText THEN stop("AIFailed", NoData, FALSE)
     ELSE IF Len(text.shape) = 0 THEN stop("EmptyAnswer", NoData, FALSE)
     ELSE IF ~analysisParses(text) THEN stop("ParseError", NoData, TRUE)
     ELSE IF IsIrrelevant(data) THEN stop("Skipped", data, FALSE)
     ELSE IF NeedsImage(p)
       THEN IF ~p.content
              THEN [stop("TypeError", data, TRUE) EXCEPT
                      !.categories = targetCategories(data)]
              ELSE [step |-> "extract", outcome |-> "none", aiData |-> data,
                    categories |-> targetCategories(data), postStatus |-> "draft",
                    imageLog |-> "none", thrown |-> FALSE]
       ELSE [step |-> "update", outcome |-> "none", aiData |-> data,
             categories |-> targetCategories(data), postStatus |-> "publish",
             imageLog |-> "NotNeeded", thrown |-> FALSE]

\* const aiRawResponse = await toAiPrompt(prompt) has returned.
AnalysisReturned ==
  /\ pc = "post" /\ step = "analyze" /\ aiPc = "return"
  /\ LET r == AfterAnalysis(post, aiText)
     IN /\ step' = r.step
        /\ outcome' = r.outcome
        /\ aiData' = r.aiData
        /\ categories' = r.categories
        /\ postStatus' = r.postStatus
        /\ imageLog' = r.imageLog
        /\ pc' = IF r.thrown /\ ~CatchesInTry THEN "done" ELSE "post"
        /\ taskError' = (r.thrown /\ ~CatchesInTry)
  /\ aiPc' = "idle"
  /\ retryCount' = 0
  /\ aiText' = NoText
  /\ aiOutcomes' = <<>>
  /\ aiSleeps' = <<>>
  /\ UNCHANGED <<shuffledPosts, idx, processed, post, imageUrl, imageResult,
                 extractCalls, extractOutcomes, downloads, writes, updateData>>
  /\ UNCHANGED importVars
  /\ UNCHANGED fetchVars

\* const imageUrl = await extractImageUrlFromContent(...): one request to the
\* AI capability, made by extractImageUrlFromContent itself.
ExtractImage ==
  /\ pc = "post" /\ step = "extract"
  /\ extractCalls' = extractCalls + 1
  /\ \E response \in ImageResponses :
       LET url == extractImageUrl(response)
       IN /\ imageUrl' = url
          /\ extractOutcomes' =
               Append(extractOutcomes, requestOutcome(response.ok, response.status))
          /\ IF Truthy(url)
               THEN /\ step' = "download"
                    /\ UNCHANGED <<postStatus, imageLog>>
               ELSE /\ step' = "update"
                    /\ postStatus' = "draft"
                    /\ imageLog' = "no-image-found"
  /\ UNCHANGED <<post, outcome, aiData, categories, imageResult, downloads,
                 writes, updateData>>
  /\ UNCHANGED batchVars
  /\ UNCHANGED aiVars
  /\ UNCHANGED importVars

\* downloadAndProcessImage: axios.get(imageUrl) succeeds.
DownloadSucceeds ==
  /\ pc = "post" /\ step = "download"
  /\ downloads' = downloads + 1
  /\ step' = "upload"
  /\ UNCHANGED <<post, outcome, aiData, categories, postStatus, imageUrl,
                 imageResult, imageLog, extractCalls, extractOutcomes, writes, updateData>>
  /\ UNCHANGED batchVars
  /\ UNCHANGED aiVars
  /\ UNCHANGED importVars

\* axios.get(imageUrl) throws: { postId, success: false }
DownloadFails ==
  /\ pc = "post" /\ step = "download"
  /\ downloads' = downloads + 1
  /\ imageResult' = NoResult
  /\ imageLog' = "download-failed"
  /\ postStatus' = StatusAfterImage(NoResult)
  /\ step' = "update"
  /\ UNCHANGED <<post, outcome, aiData, categories, imageUrl, extractCalls, extractOutcomes,
                 writes, updateData>>
  /\ UNCHANGED batchVars
  /\ UNCHANGED aiVars
  /\ UNCHANGED importVars

\* The upload taken as done whenever wpReq returned, with or without an id.
hasMediaIdAnyBody(response) == ~response.throws
\* if (uploadResponse.id), of an upload that did not throw
hasMediaId(response) == ~response.throws /\ Truthy(response.id)

\* const uploadResponse = await wpReq('/media', 'POST', formData)
Upload ==
  /\ pc = "post" /\ step = "upload"
  /\ writes' = Append(writes, "media")
  /\ \E response \in WriteResponses :
       IF hasMediaId(response)
         THEN /\ imageResult' = [mediaId |-> response.id, success |-> FALSE]
              /\ step' = "attach"
              /\ UNCHANGED <<postStatus, imageLog>>
         ELSE /\ imageResult' = NoResult
              /\ imageLog' = "upload-failed"
              /\ postStatus' = StatusAfterImage(NoResult)
              /\ step' = "update"
  /\ UNCHANGED <<post, outcome, aiData, categories, imageUrl, extractCalls, extractOutcomes,
                 downloads, updateData>>
  /\ UNCHANGED batchVars
  /\ UNCHANGED aiVars
  /\ UNCHANGED importVars

\* await wpReq(`/posts/${postId}`, 'POST', { featured_media: uploadResponse.id })
Attach ==
  /\ pc = "post" /\ step = "attach"
  /\ writes' = Append(writes, "attach")
  /\ \E response \in WriteResponses :
       LET result == AttachResult(imageResult.mediaId, response.throws)
       IN /\ imageResult' = result
          /\ imageLog' = IF response.throws THEN "attach-failed" ELSE "attached"
          /\ postStatus' = StatusAfterImage(result)
  /\ step' = "update"
  /\ UNCHANGED <<post, outcome, aiData, categories, imageUrl, extractCalls, extractOutcomes,
                 downloads, updateData>>
  /\ UNCHANGED batchVars
  /\ UNCHANGED aiVars
  /\ UNCHANGED importVars

\* What ai_tags_suggest may hold: nothing, a comma-separated string, an array
\* of strings, or a value that is neither (a number, an object).
TagsInputs == {"absent", "string", "array", "other"}
\* generatePostContent: aiData.ai_tags_suggest.split(',') throws a TypeError
\* for a truthy value that is neither an array nor a string.
RenderThrows(tags) == tags = "other"

\* The media upload placed after the update call.
stepAfterUpdateIsUpload == "upload"
\* After updatePostImmediately has returned, doProcessPost logs the result
\* and returns: no step of the post follows the update.
stepAfterUpdate == "end"

\* const postContent = generatePostContent(aiData, post), then
\* updatePostImmediately({ postId, updateData, ... })
UpdatePost ==
  /\ pc = "post" /\ step = "update"
  /\ \E tags \in TagsInputs :
       IF RenderThrows(tags)
         THEN /\ outcome' = "TypeError"
              /\ step' = "end"
              /\ pc' = IF CatchesInTry THEN "post" ELSE "done"
              /\ taskError' = ~CatchesInTry
              /\ UNCHANGED <<writes, updateData>>
         ELSE /\ writes' = Append(writes, "update")
              /\ updateData' = [status |-> postStatus, categories |-> categories]
              /\ \E response \in WriteResponses :
                   outcome' = IF ~response.throws /\ Truthy(response.id)
                                THEN "Done" ELSE "WriteError"
              /\ UNCHANGED <<pc, taskError>>
              /\ step' = stepAfterUpdate
  /\ UNCHANGED <<shuffledPosts, idx, processed, post, aiData, categories, postStatus>>
  /\ UNCHANGED aiVars
  /\ UNCHANGED imageVars
  /\ UNCHANGED importVars
  /\ UNCHANGED fetchVars

\* The loop goes on without waiting for doProcessPost to settle.
postSettledAtOnce(at) == TRUE
\* await doProcessPost(post): the loop resumes when the promise of
\* doProcessPost settles, that is when its last step is over.
postSettled(at) == at = "end"

\* doProcessPost returns: the loop goes on with the next post.
FinishPost ==
  /\ pc = "post" /\ postSettled(step)
  /\ pc' = "loop"
  /\ idx' = NextIdx(idx)
  /\ step' = "idle"
  /\ post' = NoPost
  /\ aiData' = NoData
  /\ postStatus' = "draft"
  /\ categories' = <<>>
  /\ imageUrl' = Undef
  /\ imageResult' = NoResult
  /\ imageLog' = "none"
  /\ extractCalls' = 0
  /\ extractOutcomes' = <<>>
  /\ downloads' = 0
  /\ writes' = <<>>
  /\ updateData' = NoPayload
  /\ UNCHANGED <<taskError, shuffledPosts, processed, outcome>>
  /\ UNCHANGED aiVars
  /\ UNCHANGED importVars
  /\ UNCHANGED fetchVars

Next ==
  \/ FetchPage
  \/ FetchFails
  \/ Shuffle
  \/ LoopDone
  \/ DoProcessPostStart
  \/ AiRequestSucceeds
  \/ AiCooldown
  \/ AiRequestFails
  \/ AiBackoff
  \/ AnalysisReturned
  \/ ExtractImage
  \/ DownloadSucceeds
  \/ DownloadFails
  \/ Upload
  \/ Attach
  \/ UpdatePost
  \/ FinishPost

Spec == Init /\ [][Next]_vars

\* ------------------------------------------------------- handleImport
\* handleImport(baseUrl) is called.
InitImport ==
  /\ BatchIdle("idle")
  /\ hPc = "trigger"
  /\ trigger = "none"
  /\ remainingCount = -1
  /\ attempts = 0
  /\ lastPoll = NoPoll
  /\ pollWaits = <<>>
  /\ warned = FALSE
  /\ returned = "none"

\* const importResponse = await fetch(`${baseUrl}&action=trigger`): a response
\* that is not ok returns false, a thrown error returns false from the outer
\* catch, an ok response enters the polling loop.
Trigger ==
  /\ hPc = "trigger"
  /\ \E r \in {"ok", "notOk", "throws"} :
       /\ trigger' = r
       /\ IF r # "throws" /\ triggerSucceeded(r)
            THEN /\ hPc' = IF loopContinues(-1, 0) THEN "poll" ELSE "after"
                 /\ returned' = "none"
            ELSE /\ hPc' = "done"
                 /\ returned' = "false"
  /\ remainingCount' = -1
  /\ attempts' = 0
  /\ UNCHANGED <<lastPoll, pollWaits, warned>>
  /\ UNCHANGED <<batchVars, aiVars, imageVars, post, step, outcome, aiData,
                 postStatus, categories, writes, updateData>>

\* One turn of the while loop up to its wait: attempts++, the poll, the
\* reading of its body, the break.
Poll ==
  /\ hPc = "poll"
  /\ attempts' = attempts + 1
  /\ \E poll \in PollResponses :
       LET count == countAfterPoll(poll, remainingCount)
           breaks ==
             /\ poll.resp = "ok"
             /\ \/ detectsComplete(poll.body)
                \/ /\ innerTryThrows(poll.body)
                   /\ countMatch(poll.body) = Num(0)
       IN /\ lastPoll' = poll
          /\ remainingCount' = count
          /\ hPc' = IF breaks THEN "after"
                    ELSE IF loopContinues(count, attempts + 1) THEN "wait"
                    ELSE "after"
  /\ UNCHANGED <<trigger, pollWaits, warned, returned>>
  /\ UNCHANGED <<batchVars, aiVars, imageVars, post, step, outcome, aiData,
                 postStatus, categories, writes, updateData>>

\* await new Promise((resolve) => setTimeout(resolve, 60000)), then the test of
\* the while loop.
PollWait ==
  /\ hPc = "wait"
  /\ pollWaits' = Append(pollWaits, pollWaitTime)
  /\ hPc' = IF loopContinues(remainingCount, attempts) THEN "poll" ELSE "after"
  /\ UNCHANGED <<trigger, remainingCount, attempts, lastPoll, warned, returned>>
  /\ UNCHANGED <<batchVars, aiVars, imageVars, post, step, outcome, aiData,
                 postStatus, categories, writes, updateData>>

\* After the loop: the warning when attempts >= maxAttempts, then return true.
ImportReturns ==
  /\ hPc = "after"
  /\ warned' = (attempts >= maxAttempts)
  /\ returned' = "true"
  /\ hPc' = "done"
  /\ UNCHANGED <<trigger, remainingCount, attempts, lastPoll, pollWaits>>
  /\ UNCHANGED <<batchVars, aiVars, imageVars, post, step, outcome, aiData,
                 postStatus, categories, writes, updateData>>

NextImport ==
  \/ Trigger
  \/ Poll
  \/ PollWait
  \/ ImportReturns

SpecImport == InitImport /\ [][NextImport]_vars

\* Every fetch and every timer of handleImport settles: a step that can be
\* taken is taken.
FairSpecImport == SpecImport /\ WF_vars(NextImport)

\* ------------------------------------------------------------ claims
Backoffs == SelectSeq(aiSleeps, LAMBDA w : w.kind = "backoff")
Cooldowns == SelectSeq(aiSleeps, LAMBDA w : w.kind = "cooldown")
Last(q) == q[Len(q)]

\* C1: one toAiPrompt call sends at most 4 requests and makes at most 3
\* retries, every request that was followed by a retry failed with the
\* rate-limit status, the waits before the retries are 60 s, 120 s and 240 s in
\* this order, and a 4th rate-limit failure returns null.
C1_RetryPolicy ==
  /\ retryCount <= 3
  /\ Len(aiOutcomes) <= 4
  /\ aiPc = "request" => Len(aiOutcomes) = retryCount
  /\ aiPc \in {"backoff", "cooldown", "return"} => Len(aiOutcomes) = retryCount + 1
  /\ Len(Backoffs) = retryCount
  /\ \A k \in 1..Len(Backoffs) : Backoffs[k].ms = <<60000, 120000, 240000>>[k]
  /\ \A k \in 1..Len(Backoffs) : aiOutcomes[k] = "rateLimit"
  /\ aiPc = "backoff" => Last(aiOutcomes) = "rateLimit"
  /\ (Len(aiOutcomes) = 4 /\ aiOutcomes[4] = "rateLimit")
       => (aiPc = "return" /\ aiText = NoText /\ Len(aiSleeps) = 3)

\* A call that was rate-limited four times has returned null after three waits.
C1_Witness ==
  /\ aiPc = "return"
  /\ aiOutcomes = <<"rateLimit", "rateLimit", "rateLimit", "rateLimit">>
  /\ aiText = NoText
  /\ Len(Backoffs) = 3

\* C2: a failure that is not a rate-limit failure is the last request of the
\* call: null is returned at once, with no wait after it, on the first request
\* as after earlier retries.
C2_OtherErrorReturnsAtOnce ==
  \A k \in 1..Len(aiOutcomes) :
    aiOutcomes[k] = "error"
      => /\ k = Len(aiOutcomes)
         /\ aiPc = "return"
         /\ aiText = NoText
         /\ Len(aiSleeps) = k - 1
         /\ Len(Cooldowns) = 0

\* A call whose second request, made after one retry, failed otherwise.
C2_Witness ==
  /\ aiPc = "return"
  /\ aiOutcomes = <<"rateLimit", "error">>
  /\ Len(aiSleeps) = 1

\* C3: the wait after a successful response is 30 seconds, with or without
\* earlier retries.
C3_Cooldown30s ==
  (aiPc = "return" /\ Len(aiOutcomes) > 0 /\ Last(aiOutcomes) = "ok")
    => (Len(Cooldowns) = 1 /\ Last(aiSleeps) = [kind |-> "cooldown", ms |-> 30000])

\* ---------------------------------------------- status and image claims
\* The post has a positive cover-image reference.
HasCover(p) == p.featured_media.t = "num" /\ p.featured_media.n > 0
\* The update call of this post was made: the post reached write-back.
WroteBack == \E k \in 1..Len(writes) : writes[k] = "update"
\* Image Resolver outcome Resolved(mediaId): the upload returned a media id.
Resolved == Truthy(imageResult.mediaId)
SkippedOutcomes == {"no-image-found", "download-failed", "upload-failed"}

\* C4 as stated: the submitted status is 'publish' exactly when the post had a
\* positive cover or the image outcome is Resolved, and 'draft' for every
\* Skipped outcome.
C4_PublishIffCoverOrResolved ==
  WroteBack =>
    /\ updateData.status = "publish" <=> (HasCover(post) \/ Resolved)
    /\ imageLog \in SkippedOutcomes => updateData.status = "draft"

\* C4 amended: the submitted status is 'publish' exactly when the post had a
\* positive cover or the uploaded media was also attached (imageResult.success);
\* it is 'draft' for every Skipped outcome and when the attachment failed.
C4_PublishIffCoverOrAttached ==
  WroteBack =>
    /\ updateData.status \in {"publish", "draft"}
    /\ updateData.status = "publish" <=> (HasCover(post) \/ imageResult.success)
    /\ imageResult.success <=> imageLog = "attached"
    /\ imageLog \in SkippedOutcomes \cup {"attach-failed"}
         => updateData.status = "draft"

\* A post without cover whose image was uploaded and attached is published.
C4_Witness ==
  /\ WroteBack
  /\ ~HasCover(post)
  /\ imageLog = "attached"
  /\ updateData.status = "publish"

\* C5 as stated: when the attachment fails after an upload that returned a media
\* id, the outcome keeps the media id and the post is treated as resolved:
\* its status is 'publish'.
C5_AttachFailureStillPublishes ==
  imageLog = "attach-failed"
    => (Resolved /\ postStatus = "publish"
        /\ (WroteBack => updateData.status = "publish"))

\* C5 amended: when the attachment fails after an upload that returned a media
\* id, the result keeps the media id with success = false, nothing is rolled
\* back (the only later write is the update), and the status is 'draft'.
C5_AttachFailureKeepsUploadAsDraft ==
  imageLog = "attach-failed"
    => /\ Resolved
       /\ ~imageResult.success
       /\ postStatus = "draft"
       /\ writes \in {<<"media", "attach">>, <<"media", "attach", "update">>}
       /\ WroteBack => updateData.status = "draft"

\* The update of a post whose attachment failed was submitted.
C5_Witness ==
  /\ imageLog = "attach-failed"
  /\ writes = <<"media", "attach", "update">>
  /\ updateData.status = "draft"
  /\ Resolved

\* C6: an analysis with is_beer_related = false ends the post as Skipped, with
\* no content-store write, no image-extraction request and no download.
C6_IrrelevantNeverWritten ==
  aiData.is_beer_related = Bool(FALSE)
    => /\ step = "end"
       /\ outcome = "Skipped"
       /\ writes = <<>>
       /\ updateData = NoPayload
       /\ extractCalls = 0
       /\ downloads = 0

\* A post judged irrelevant, although the AI named a category and an importance.
C6_Witness ==
  /\ step = "end"
  /\ outcome = "Skipped"
  /\ aiData.is_beer_related = Bool(FALSE)
  /\ aiData.ai_importance = Num(5)
  /\ writes = <<>>

CategorySet(q) == {q[k] : k \in 1..Len(q)}

\* C7: the categories of a submitted payload contain the featured id 1677
\* exactly when the parsed importance is a number >= 4.
C7_FeaturedIffImportant ==
  WroteBack =>
    (Num(1677) \in CategorySet(updateData.categories)
       <=> (aiData.ai_importance.t = "num" /\ aiData.ai_importance.n >= 4))

\* A payload with the featured id for importance 4, the threshold.
C7_Witness ==
  /\ WroteBack
  /\ aiData.ai_importance = Num(4)
  /\ Num(1677) \in CategorySet(updateData.categories)

\* The table of the claim: the id of each of the five names.
ClaimedCategoryId(name) ==
  CASE name = Str("erabu") -> 2082
    [] name = Str("taiken") -> 2083
    [] name = Str("fukabori") -> 2084
    [] name = Str("kau") -> 2085
    [] name = Str("community") -> 2086
    [] OTHER -> 2084

\* C8: the primary category id is the table id of selected_category for the
\* five names, and 2084 for every other name and for an absent one.
C8_PrimaryCategoryTotal ==
  Len(categories) > 0
    => categories[1] = Num(ClaimedCategoryId(aiData.selected_category))

\* C9: a post with a positive cover-image reference causes no image-extraction
\* request, no download, no media upload and no attachment write: its only
\* content-store write is the update.
C9_CoverSkipsImageResolver ==
  HasCover(post)
    => /\ extractCalls = 0
       /\ downloads = 0
       /\ imageUrl = Undef
       /\ writes \in {<<>>, <<"update">>}
       /\ step \notin {"extract", "download", "upload", "attach"}

\* A post with a cover was written back.
C9_Witness ==
  /\ HasCover(post)
  /\ writes = <<"update">>
  /\ updateData.status = "publish"

ErrorOutcomes == {"AIFailed", "ParseError", "TypeError", "WriteError"}

\* C10: doProcessPost is entered at most once for each fetched post, no
\* failure inside a post ends the batch (the catch of processNews runs only
\* when the fetch failed, before any post), and when the run is over every
\* fetched post was processed exactly once.
C10_FailureConfinedToPost ==
  /\ \A k \in DOMAIN processed : processed[k] <= 1
  /\ taskError => (idx = 0 /\ \A k \in DOMAIN processed : processed[k] = 0)
  /\ pc \in {"loop", "post"} =>
       \A k \in 1..Len(shuffledPosts) :
         processed[shuffledPosts[k]] = (IF k < idx \/ (k = idx /\ pc = "post") THEN 1 ELSE 0)
  /\ (pc = "done" /\ ~taskError) =>
       \A k \in DOMAIN processed : processed[k] = 1

\* The first post of a batch of two failed to write back and the loop stands
\* at the second post.
C10_Witness ==
  /\ pc = "loop"
  /\ Len(shuffledPosts) = 2
  /\ idx = 2
  /\ outcome \in ErrorOutcomes
  /\ processed[shuffledPosts[1]] = 1

\* ------------------------------------------------ analysis failure claims
\* The analysis text toAiPrompt returned is unusable: null or empty, without a
\* "{" ... "}" span, or with a span that is not one JSON object.
Unusable(text) ==
  \/ text = NoText
  \/ Len(text.shape) = 0
  \/ ~HasMatch(text.shape)
  \/ jsonMatch(text.shape) \notin {<<"{", "b", "}">>, <<"{", "}">>}
FailedOutcomes == {"AIFailed", "EmptyAnswer", "ParseError"}

\* A post that ended as failed was not touched, and a post with a write had
\* its analysis parsed (its categories are set).
FailedUnmodified ==
  /\ (step = "end" /\ outcome \in FailedOutcomes)
       => (writes = <<>> /\ updateData = NoPayload /\ extractCalls = 0
           /\ downloads = 0 /\ categories = <<>>)
  /\ writes # <<>> => Len(categories) > 0
\* The step that follows the return of an unusable text ends the post as
\* failed, inside doProcessPost.
UnusableEndsPost ==
  (step = "analyze" /\ aiPc = "return" /\ Unusable(aiText))
    => /\ step' = "end"
       /\ outcome' \in FailedOutcomes
       /\ writes' = <<>>
       /\ updateData' = NoPayload
       /\ pc' = "post"

\* C11: when toAiPrompt returned no text, or a text that does not parse, the
\* post ends at once as failed, with no content-store write, no image request
\* and no download; a write is made only for a post whose analysis was parsed.
C11_NoWriteWithoutParsedAnalysis ==
  []FailedUnmodified /\ [][UnusableEndsPost]_vars

\* A post whose analysis text had no JSON object ended as a parse failure,
\* unmodified.
C11_Witness ==
  /\ step = "end"
  /\ outcome = "ParseError"
  /\ writes = <<>>
  /\ updateData = NoPayload

\* ------------------------------------------------- handleImport claims
\* No poll is to follow: the loop was left.
PollingStopped == hPc \in {"after", "done"}
\* One more poll follows, after the wait.
PollsAgain == hPc \in {"wait", "poll"}
\* The last poll was answered with an ok response whose body is a JSON object
\* with a message that contains "complete".
PolledCompleteMessage ==
  /\ lastPoll.resp = "ok"
  /\ lastPoll.body.kind = "object"
  /\ lastPoll.body.message = Str("import complete")
\* The last poll was answered with a count alone, or a free text with a count.
PolledCount ==
  /\ lastPoll.resp = "ok"
  /\ lastPoll.body.kind \in {"number", "text"}
  /\ lastPoll.body.n # Undef

\* C12: a trigger response that is not ok makes handleImport return false at
\* once: no poll was made and no wait was taken.
C12_FailedTriggerReturnsFalse ==
  trigger = "notOk"
    => /\ hPc = "done"
       /\ returned = "false"
       /\ attempts = 0
       /\ lastPoll = NoPoll
       /\ pollWaits = <<>>
       /\ ~warned

\* handleImport has returned false for a trigger that was refused.
C12_Witness ==
  /\ trigger = "notOk"
  /\ hPc = "done"
  /\ returned = "false"

\* C13 as stated: once a polled structured body has a message containing
\* "complete", no further poll is made and handleImport returns true.
C13_CompleteMessageStops ==
  PolledCompleteMessage
    => /\ PollingStopped
       /\ hPc = "done" => returned = "true"

\* C13 amended: once a polled structured body has status 200 and a message
\* containing "complete", no further poll is made, remainingCount is 0 and
\* handleImport returns true; with any other status in the body the message
\* does not end the polling: below 30 polls another poll follows.
C13_Status200CompleteStops ==
  PolledCompleteMessage
    => IF lastPoll.body.status = Num(200)
         THEN /\ PollingStopped
              /\ remainingCount = 0
              /\ hPc = "done" => returned = "true"
         ELSE attempts < 30 => PollsAgain

\* The second poll read status 200 and a complete message: handleImport
\* returned true after two polls and one wait.
C13_Witness ==
  /\ PolledCompleteMessage
  /\ lastPoll.body.status = Num(200)
  /\ attempts = 2
  /\ pollWaits = <<60000>>
  /\ hPc = "done"
  /\ returned = "true"

\* C14: once a polled body is a count alone, or a free text with a count, and
\* the count is 0, no further poll is made and handleImport returns true; a
\* count above 0 is followed by another poll, after a wait, below 30 polls.
C14_ZeroCountStops ==
  PolledCount
    => IF lastPoll.body.n = Num(0)
         THEN /\ PollingStopped
              /\ hPc = "done" => returned = "true"
         ELSE attempts < 30 => PollsAgain

\* The polls and the waits of handleImport so far are within its limits: at
\* most 30 polls, a wait of one minute between two polls and no other wait,
\* and a return value whenever it is over, true once the trigger succeeded.
ImportBounded ==
  /\ attempts <= 30
  /\ Len(pollWaits) <= 29
  /\ \A k \in 1..Len(pollWaits) : pollWaits[k] = 60000
  /\ Len(pollWaits) \in {attempts - 1, attempts} \/ attempts = 0
  /\ hPc = "poll" => Len(pollWaits) = attempts
  /\ hPc = "done" => returned \in {"true", "false"}
  /\ (hPc = "done" /\ trigger = "ok") => returned = "true"

\* C15: handleImport makes at most 30 polls, one minute apart, and always
\* returns, whatever the polls answer; after 30 polls without completion it
\* returns true.
C15_ImportTerminates ==
  []ImportBounded /\ <>(hPc = "done")

\* 30 polls failed, each but the last followed by a wait, and handleImport
\* returned true.
C15_Witness ==
  /\ hPc = "done"
  /\ attempts = 30
  /\ remainingCount # 0
  /\ lastPoll.resp = "throws"
  /\ Len(pollWaits) = 29
  /\ returned = "true"

\* ---------------------------------------------------------- parser claim
\* The spans of a text that are one JSON object: "{", its members if any, "}".
ObjectSpans(shape) ==
  {<<a, b>> \in (1..Len(shape)) \X (1..Len(shape)) :
     a < b /\ SubSeq(shape, a, b) \in {<<"{", "b", "}">>, <<"{", "}">>}}
\* The text is one JSON object with prose before it, after it, both or none:
\* it has one object span, and no members of an object outside of it.
WrapsOneObject(shape) ==
  /\ Cardinality(ObjectSpans(shape)) = 1
  /\ \A k \in BraceAt(shape, "b") :
       \E sp \in ObjectSpans(shape) : sp[1] < k /\ k < sp[2]

\* C16: a text that is one valid JSON object wrapped in prose is parsed, and
\* the parsed analysis is exactly that object; a text that is not empty ends
\* in a parse error only when it holds no JSON object.
C16_WrappedObjectParses ==
  [][(step = "analyze" /\ aiPc = "return" /\ aiText # NoText)
       => /\ WrapsOneObject(aiText.shape)
               => (outcome' # "ParseError" /\ aiData' = aiText.body)
          /\ outcome' = "ParseError" => ObjectSpans(aiText.shape) = {}]_vars

\* ------------------------------------------------- image request claim
\* C17: the image-extraction request is made under the retry policy of
\* toAiPrompt: once the extraction is over, a rate-limit failure was the 4th
\* of 4 requests with a backoff wait before each retry, and a success was
\* followed by the cooldown wait.
C17_ExtractionThroughGateway ==
  (step # "extract" /\ Len(extractOutcomes) > 0)
    => /\ Last(extractOutcomes) = "rateLimit" => Len(extractOutcomes) = 4
       /\ Len(Backoffs) = Len(extractOutcomes) - 1
       /\ Last(extractOutcomes) = "ok" => Len(Cooldowns) = 1

\* ------------------------------------------------------ sequencing claim
\* What is outstanding: the request or a wait of toAiPrompt, and the call the
\* post stands at (extraction, download, upload, attachment, update).
Outstanding ==
  (IF aiPc \in {"request", "backoff", "cooldown"} THEN {"toAiPrompt"} ELSE {})
    \cup (IF step \in {"extract", "download", "upload", "attach", "update"}
            THEN {step} ELSE {})

\* C18: at most one call or wait is outstanding at any time; outside of a post
\* none is; and the loop goes on to the next post only after the current post
\* ran to its end, with all its calls and waits over.
C18_OneCallAtATime ==
  /\ Cardinality(Outstanding) <= 1
  /\ pc # "post" => (Outstanding = {} /\ step = "idle" /\ aiPc = "idle")
  /\ aiPc # "idle" => step = "analyze"
  /\ (pc = "loop" /\ idx > 1) => outcome # "none"

\* The second post of a batch waits for a retry, the first post being over.
C18_Witness ==
  /\ pc = "post"
  /\ idx = 2
  /\ aiPc = "backoff"
  /\ Outstanding = {"toAiPrompt"}
  /\ processed[shuffledPosts[1]] = 1

\* ------------------------------------------------- image resolver claim
\* The writes of the image resolution: those before the update.
ImageWrites == SelectSeq(writes, LAMBDA w : w # "update")

\* C19: the image steps are taken in order and each only after the one before
\* succeeded: a download only for a URL that was found, the upload only after
\* the download succeeded, the attachment only after the upload returned a
\* media id; a post has at most one download and at most two image writes, and
\* a step that failed is followed by no later image step.
C19_ImageStepsGated ==
  /\ downloads <= 1
  /\ ImageWrites \in {<<>>, <<"media">>, <<"media", "attach">>}
  /\ (downloads > 0 \/ step = "download") => (Truthy(imageUrl) /\ extractCalls = 1)
  /\ (ImageWrites # <<>> \/ step = "upload")
       => (downloads = 1 /\ imageLog # "download-failed")
  /\ (Len(ImageWrites) = 2 \/ step = "attach") => Truthy(imageResult.mediaId)
  /\ imageLog = "no-image-found" => (downloads = 0 /\ ImageWrites = <<>>)
  /\ imageLog = "download-failed" => ImageWrites = <<>>
  /\ imageLog = "upload-failed" => ImageWrites = <<"media">>

\* An image was found, downloaded, uploaded and attached: one download, two
\* writes.
C19_Witness ==
  /\ imageLog = "attached"
  /\ Truthy(imageUrl)
  /\ downloads = 1
  /\ writes = <<"media", "attach">>

\* ----------------------------------------------------- pagination claim
\* The ids of a batch, as a set.
BatchIds == {shuffledPosts[k] : k \in 1..Len(shuffledPosts)}
\* The pages were requested in the order 1, 2, 3, ..., each with 100 per page;
\* while the loop fetches, every page so far was full and the batch is their
\* posts in order; once it has stopped, the last page was empty, no array, or
\* short, no page was requested after it, and the batch is the posts of the
\* full pages and of that page, each once.
PagesInOrder ==
  /\ \A k \in 1..Len(requests) : requests[k] = [page |-> k, per_page |-> 100]
  /\ Len(requests) = (IF pc = "fetch" THEN page - 1 ELSE page)
  /\ pc = "fetch"
       => /\ shuffledPosts = [k \in 1..((page - 1) * PageSize) |-> k]
          /\ page > 1
               => (pageResponse.kind = "array" /\ Len(pageResponse.posts) = PageSize)
  /\ pc = "shuffle"
       => /\ \/ pageResponse.kind = "object"
             \/ pageResponse.kind = "array" /\ Len(pageResponse.posts) < PageSize
          /\ shuffledPosts =
               [k \in 1..((page - 1) * PageSize + Len(pageResponse.posts)) |-> k]
  /\ pc \in {"loop", "post"} \/ (pc = "done" /\ ~taskError)
       => /\ Len(shuffledPosts) \in ((page - 1) * PageSize)..(page * PageSize - 1)
          /\ BatchIds = 1..Len(shuffledPosts)
          /\ DOMAIN processed = 1..Len(shuffledPosts)
\* The shuffle keeps the posts of the batch: the same posts, each once.
ShuffleKeepsBatch ==
  pc = "shuffle"
    => /\ Len(shuffledPosts') = Len(shuffledPosts)
       /\ {shuffledPosts'[k] : k \in 1..Len(shuffledPosts')} = BatchIds

UpdateAt == {k \in 1..Len(writes) : writes[k] = "update"}
\* Image resolution is over: it was not needed, it was skipped, or the
\* attachment was tried.
ImageResolutionOver ==
  imageLog \in {"NotNeeded", "attached", "attach-failed"} \cup SkippedOutcomes

\* C21: the update call of a post is made at most once, only when image
\* resolution is over (after any media upload and attachment write), and it
\* is the last write of the post: doProcessPost is at its end.
C21_UpdateOnceAndLast ==
  /\ Cardinality(UpdateAt) <= 1
  /\ step \in {"extract", "download", "upload", "attach", "update"} => UpdateAt = {}
  /\ UpdateAt # {}
       => /\ UpdateAt = {Len(writes)}
          /\ ImageResolutionOver
          /\ step = "end"
          /\ updateData # NoPayload

\* A post whose image was uploaded and attached, then updated: the update
\* is the third and last write.
C21_Witness ==
  /\ imageLog = "attached"
  /\ writes = <<"media", "attach", "update">>
  /\ UpdateAt = {3}
  /\ outcome = "Done"

\* -------------------------------------------------- timeout warning claim
\* A poll detected completion: remainingCount was set to 0, by the complete
\* message or by a count of 0.
CompletionDetected == remainingCount = 0

\* C22: the timeout warning is logged only when the polling ended without a
\* poll detecting completion; when a poll detected completion, the 30th
\* included, handleImport returns without the warning.
C22_WarningOnlyOnTimeout ==
  /\ warned => ~CompletionDetected
  /\ (hPc = "done" /\ trigger = "ok" /\ CompletionDetected) => ~warned

====
